---- MODULE Spec2Model ----
(***************************************************************************)
(* A model of us_accidents_analysis.py: the notebook's data preparation,   *)
(* cell by cell, on one in-memory table df.                                *)
(*                                                                         *)
(* A table is a record [columns, index, data]: the set of column labels,   *)
(* the row labels in row order, and the rows in row order, each row a      *)
(* function from the column labels to cells.  A cell is NaN (the empty     *)
(* tuple) or a one-element tuple <<v>> holding the value, so that a        *)
(* missing cell can be compared with a cell of any type.                   *)
(*                                                                         *)
(* Each stage of the notebook has its own specification, whose Init draws  *)
(* the table that reaches the stage from a bounded set and whose actions   *)
(* are the stage's cells in the order of the file.  A stage's table        *)
(* carries the columns the stage reads or writes and representatives of    *)
(* the columns it passes through.                                          *)
(***************************************************************************)
EXTENDS Integers, Sequences, FiniteSets, TLC

VARIABLES pc,       \* the next cell to run
          df,       \* the notebook's global table
          df_in,    \* the table as the current run of the stage received it
          missing,  \* the per-column missing percentage computed at line 256
          df_bl,    \* the balanced table of line 329
          failed    \* a cell of the current run has raised

vars == <<pc, df, df_in, missing, df_bl, failed>>

\* The largest number of rows of an input table.
MaxRows == 3

----------------------------------------------------------------------------
(* Cells and tables *)

NaN == <<>>

isnull(x) == x = NaN

NoTable == [columns |-> {}, index |-> <<>>, data |-> <<>>]

NRows(t) == Len(t.data)

Column(t, c) == [i \in 1..NRows(t) |-> t.data[i][c]]

\* The table of the given rows, labelled 0, 1, 2, ...
MakeTable(cols, rows) ==
    [columns |-> cols,
     index   |-> [i \in 1..Len(rows) |-> i - 1],
     data    |-> rows]

\* df.drop(labels, axis=1)
drop(t, labels) ==
    [t EXCEPT !.columns = @ \ labels,
              !.data = [i \in DOMAIN @ |-> [c \in t.columns \ labels |-> @[i][c]]]]

KeyError_Ignored(t, labels) == FALSE

\* df.drop raises KeyError when a label is not a column
KeyError(t, labels) == ~(labels \subseteq t.columns)

\* df[c] = values: a new or replaced column, row by row
SetColumn(t, c, values) ==
    [t EXCEPT !.columns = @ \cup {c},
              !.data = [i \in DOMAIN @ |->
                          [d \in t.columns \cup {c} |->
                              IF d = c THEN values[i] ELSE @[i][d]]]]

\* df.loc[mask, c] = value, the mask a truth value for each row
SetWhere(t, mask, c, value) ==
    [t EXCEPT !.data = [i \in DOMAIN @ |->
                          IF mask[i] THEN [@[i] EXCEPT ![c] = value] ELSE @[i]]]

\* df[mask]: the rows at the positions where the mask is true, with their
\* labels
Positions(mask) == SelectSeq([i \in 1..Len(mask) |-> i], LAMBDA i : mask[i])

Take(t, pos) ==
    [columns |-> t.columns,
     index   |-> [k \in 1..Len(pos) |-> t.index[pos[k]]],
     data    |-> [k \in 1..Len(pos) |-> t.data[pos[k]]]]

\* df[c].unique().size
UniqueSize(t, c) == Cardinality({t.data[i][c] : i \in 1..NRows(t)})

----------------------------------------------------------------------------
(* Stage 2, lines 171-185: the column pruner *)

LeakColumns == {"ID", "Description", "Distance(mi)", "End_Time", "End_Lat", "End_Lng"}

ConstantColumns == {"Country", "Turning_Loop"}

\* The columns of the table the pruner receives: the ones it drops and two
\* of the categorical columns it lists at line 175 and keeps.
PrunerSchema == LeakColumns \cup ConstantColumns \cup {"Bump", "Side"}

PrunerRow(i, loop, bump, side) ==
    [c \in PrunerSchema |->
        CASE c = "ID"           -> <<i>>
          [] c = "Country"      -> <<"US">>
          [] c = "Turning_Loop" -> <<loop>>
          [] c = "Bump"         -> <<bump>>
          [] c = "Side"         -> <<side>>
          [] OTHER              -> <<0>>]

PrunerChoices == BOOLEAN \X BOOLEAN \X {"R", "L"}

InitPrune ==
    /\ pc = "drop_leak"
    /\ \E n \in 0..MaxRows : \E f \in [1..n -> PrunerChoices] :
          df = MakeTable(PrunerSchema,
                         [i \in 1..n |-> PrunerRow(i, f[i][1], f[i][2], f[i][3])])
    /\ df_in = df
    /\ missing = <<>>
    /\ df_bl = NoTable
    /\ failed = FALSE

\* line 171
DropLeak ==
    /\ pc = "drop_leak"
    /\ ~KeyError(df, LeakColumns)
    /\ df' = drop(df, LeakColumns)
    /\ pc' = "drop_const"
    /\ UNCHANGED <<df_in, missing, df_bl, failed>>

\* line 185
DropConstant ==
    /\ pc = "drop_const"
    /\ ~KeyError(df, ConstantColumns)
    /\ df' = drop(df, ConstantColumns)
    /\ pc' = "pruned"
    /\ UNCHANGED <<df_in, missing, df_bl, failed>>

NextPrune == DropLeak \/ DropConstant

SpecPrune == InitPrune /\ [][NextPrune]_vars

\* C7: after the column pruner no remaining column has a single unique value.
C7_NoConstantColumnAfterPruning ==
    pc = "pruned" => \A c \in df.columns : UniqueSize(df, c) # 1

----------------------------------------------------------------------------
(* Stage 3a, lines 193-198: the wind direction *)

CalmLabels == {"Calm"}

WestLabels_NoWNW == {"West", "WSW"}

WestLabels == {"West", "WSW", "WNW"}

SouthLabels == {"South", "SSW", "SSE"}

NorthLabels == {"North", "NNW", "NNE"}

EastLabels == {"East", "ESE", "ENE"}

VariableLabels == {"Variable"}

\* df.loc[df['Wind_Direction'] == l1 | ..., 'Wind_Direction'] = target
Relabel(t, labels, target) ==
    SetWhere(t, [i \in 1..NRows(t) |->
                    \E l \in labels : t.data[i]["Wind_Direction"] = <<l>>],
             "Wind_Direction", <<target>>)

\* The labels the six assignments rewrite, the ten values they produce or
\* leave alone, and two values the assignments do not name.
MappedLabels ==
    {"Calm", "West", "WSW", "WNW", "South", "SSW", "SSE", "North", "NNW", "NNE",
     "East", "ESE", "ENE", "Variable"}

CompassValues == {"N", "S", "E", "W", "CALM", "VAR", "NE", "NW", "SE", "SW"}

OtherLabels == {"north", "Unknown"}

WindCells ==
    {NaN} \cup {<<l>> : l \in MappedLabels \cup CompassValues \cup OtherLabels}

\* The largest number of rows of a table of wind directions.
MaxWindRows == 2

InitWind ==
    /\ pc = "wind_calm"
    /\ \E n \in 0..MaxWindRows : \E f \in [1..n -> WindCells] :
          df = MakeTable({"Wind_Direction"},
                         [i \in 1..n |-> [c \in {"Wind_Direction"} |-> f[i]]])
    /\ df_in = df
    /\ missing = <<>>
    /\ df_bl = NoTable
    /\ failed = FALSE

\* line 193
WindCalm ==
    /\ pc = "wind_calm"
    /\ df' = Relabel(df, CalmLabels, "CALM")
    /\ pc' = "wind_west"
    /\ UNCHANGED <<df_in, missing, df_bl, failed>>

\* line 194
WindWest ==
    /\ pc = "wind_west"
    /\ df' = Relabel(df, WestLabels, "W")
    /\ pc' = "wind_south"
    /\ UNCHANGED <<df_in, missing, df_bl, failed>>

\* line 195
WindSouth ==
    /\ pc = "wind_south"
    /\ df' = Relabel(df, SouthLabels, "S")
    /\ pc' = "wind_north"
    /\ UNCHANGED <<df_in, missing, df_bl, failed>>

\* line 196
WindNorth ==
    /\ pc = "wind_north"
    /\ df' = Relabel(df, NorthLabels, "N")
    /\ pc' = "wind_east"
    /\ UNCHANGED <<df_in, missing, df_bl, failed>>

\* line 197
WindEast ==
    /\ pc = "wind_east"
    /\ df' = Relabel(df, EastLabels, "E")
    /\ pc' = "wind_variable"
    /\ UNCHANGED <<df_in, missing, df_bl, failed>>

\* line 198
WindVariable ==
    /\ pc = "wind_variable"
    /\ df' = Relabel(df, VariableLabels, "VAR")
    /\ pc' = "wind_done"
    /\ UNCHANGED <<df_in, missing, df_bl, failed>>

NextWind ==
    WindCalm \/ WindWest \/ WindSouth \/ WindNorth \/ WindEast \/ WindVariable

SpecWind == InitWind /\ [][NextWind]_vars

CompassCells == {<<v>> : v \in CompassValues}

\* C6 as stated: after the canonicalization every non-missing wind direction
\* is one of the ten compass values.
C6_EveryWindDirectionCanonical ==
    pc = "wind_done" =>
        \A i \in 1..NRows(df) :
            LET v == df.data[i]["Wind_Direction"]
            IN  isnull(v) \/ v \in CompassCells

\* C6 amended: after the canonicalization a wind direction that came in as
\* one of the fourteen labels of lines 193-198 or as one of the ten compass
\* values is one of the ten compass values; a missing one is still missing;
\* any other value is what it was.
C6_NamedWindDirectionsCanonical ==
    pc = "wind_done" =>
        /\ NRows(df) = NRows(df_in)
        /\ \A i \in 1..NRows(df) :
              LET u == df_in.data[i]["Wind_Direction"]
                  v == df.data[i]["Wind_Direction"]
              IN  /\ isnull(u) => isnull(v)
                  /\ u \in {<<l>> : l \in MappedLabels \cup CompassValues}
                        => v \in CompassCells
                  /\ u \in {<<l>> : l \in OtherLabels} => v = u

\* A table with a rewritten label and a label the assignments do not name
\* has been canonicalized.
C6_Witness ==
    /\ pc = "wind_done"
    /\ \E i, j \in 1..NRows(df) :
          /\ df_in.data[i]["Wind_Direction"] = <<"WNW">>
          /\ df.data[i]["Wind_Direction"] = <<"W">>
          /\ df_in.data[j]["Wind_Direction"] = <<"north">>

----------------------------------------------------------------------------
(* Stage 3b, lines 209-226: the weather indicators *)

\* A weather text is the tuple of its characters.
UpperCase ==
    <<"A", "B", "C", "D", "E", "F", "G", "H", "I", "J", "K", "L", "M",
      "N", "O", "P", "Q", "R", "S", "T", "U", "V", "W", "X", "Y", "Z">>

LowerCase ==
    <<"a", "b", "c", "d", "e", "f", "g", "h", "i", "j", "k", "l", "m",
      "n", "o", "p", "q", "r", "s", "t", "u", "v", "w", "x", "y", "z">>

\* case=False: both sides are compared with the case folded
lower(ch) ==
    IF \E k \in 1..26 : UpperCase[k] = ch
    THEN LowerCase[CHOOSE k \in 1..26 : UpperCase[k] = ch]
    ELSE ch

MatchesAt(text, word, at) ==
    \A k \in 1..Len(word) : lower(text[at + k - 1]) = lower(word[k])

\* Series.str.contains('w1|w2|...', case=False, na=False) for one cell
contains(cell, words) ==
    IF isnull(cell) THEN FALSE
    ELSE LET text == cell[1]
         IN  \E word \in words :
                \E at \in 1..(Len(text) - Len(word) + 1) : MatchesAt(text, word, at)

ClearWords ==
    {<<"C", "l", "e", "a", "r">>}

CloudWords ==
    {<<"C", "l", "o", "u", "d">>,
     <<"O", "v", "e", "r", "c", "a", "s", "t">>}

RainWords ==
    {<<"R", "a", "i", "n">>,
     <<"s", "t", "o", "r", "m">>}

HeavyRainWords ==
    {<<"H", "e", "a", "v", "y", " ", "R", "a", "i", "n">>,
     <<"R", "a", "i", "n", " ", "S", "h", "o", "w", "e", "r">>,
     <<"H", "e", "a", "v", "y", " ", "T", "-", "S", "t", "o", "r", "m">>,
     <<"H", "e", "a", "v", "y", " ", "T", "h", "u", "n", "d", "e", "r", "s", "t", "o", "r", "m", "s">>}

SnowWords ==
    {<<"S", "n", "o", "w">>,
     <<"S", "l", "e", "e", "t">>,
     <<"I", "c", "e">>}

HeavySnowWords ==
    {<<"H", "e", "a", "v", "y", " ", "S", "n", "o", "w">>,
     <<"H", "e", "a", "v", "y", " ", "S", "l", "e", "e", "t">>,
     <<"H", "e", "a", "v", "y", " ", "I", "c", "e", " ", "P", "e", "l", "l", "e", "t", "s">>,
     <<"S", "n", "o", "w", " ", "S", "h", "o", "w", "e", "r", "s">>,
     <<"S", "q", "u", "a", "l", "l", "s">>}

FogWords ==
    {<<"F", "o", "g">>}

\* line 220, in the order of the list
weather == <<"Clear", "Cloud", "Rain", "Heavy_Rain", "Snow", "Heavy_Snow", "Fog">>

\* df[name] = np.where(df['Weather_Condition'].str.contains(...), 1, 0)
Indicator(t, name, words) ==
    SetColumn(t, name,
              [i \in 1..NRows(t) |->
                  IF contains(t.data[i]["Weather_Condition"], words)
                  THEN <<1>> ELSE <<0>>])

\* One pass of the loop of lines 221-222, kept as the source writes it: the
\* rows whose text is missing get the text's cell, which is the missing one.
AssignNA_Skip(t, name) == t

AssignNA(t, name) ==
    [t EXCEPT !.data = [i \in DOMAIN t.data |->
        IF isnull(t.data[i]["Weather_Condition"])
        THEN [t.data[i] EXCEPT ![name] = t.data[i]["Weather_Condition"]]
        ELSE t.data[i]]]

RECURSIVE AssignNAFrom(_, _)
AssignNAFrom(t, k) ==
    IF k > Len(weather) THEN t ELSE AssignNAFrom(AssignNA(t, weather[k]), k + 1)

\* The texts of the input: some of the dataset's, and the missing one.
WeatherCells ==
    {NaN,
     << <<"C", "l", "e", "a", "r">> >>,
     << <<"O", "v", "e", "r", "c", "a", "s", "t">> >>,
     << <<"L", "i", "g", "h", "t", " ", "R", "a", "i", "n">> >>,
     << <<"H", "e", "a", "v", "y", " ", "T", "-", "S", "t", "o", "r", "m">> >>,
     << <<"L", "i", "g", "h", "t", " ", "S", "n", "o", "w">> >>,
     << <<"F", "o", "g">> >>,
     << <<"F", "a", "i", "r">> >>}

InitWeather ==
    /\ pc = "indicators"
    /\ \E n \in 0..MaxRows : \E f \in [1..n -> WeatherCells] :
          df = MakeTable({"Weather_Condition"},
                         [i \in 1..n |-> [c \in {"Weather_Condition"} |-> f[i]]])
    /\ df_in = df
    /\ missing = <<>>
    /\ df_bl = NoTable
    /\ failed = FALSE

\* A column read with no value at all is a column of floats, and the .str
\* accessor of line 209 raises on it.
StrAccessorRaises(t, c) ==
    /\ NRows(t) > 0
    /\ \A i \in 1..NRows(t) : isnull(t.data[i][c])

\* lines 209-215
DeriveIndicators ==
    /\ pc = "indicators"
    /\ ~StrAccessorRaises(df, "Weather_Condition")
    /\ df' = Indicator(Indicator(Indicator(Indicator(Indicator(Indicator(Indicator(
                df, "Clear", ClearWords),
                "Cloud", CloudWords),
                "Rain", RainWords),
                "Heavy_Rain", HeavyRainWords),
                "Snow", SnowWords),
                "Heavy_Snow", HeavySnowWords),
                "Fog", FogWords)
    /\ pc' = "assign_na"
    /\ UNCHANGED <<df_in, missing, df_bl, failed>>

\* line 209, raising
DeriveIndicatorsRaises ==
    /\ pc = "indicators"
    /\ StrAccessorRaises(df, "Weather_Condition")
    /\ failed' = TRUE
    /\ pc' = "aborted"
    /\ UNCHANGED <<df, df_in, missing, df_bl>>

\* lines 220-222
AssignMissing ==
    /\ pc = "assign_na"
    /\ df' = AssignNAFrom(df, 1)
    /\ pc' = "drop_weather"
    /\ UNCHANGED <<df_in, missing, df_bl, failed>>

\* line 226
DropWeatherCondition ==
    /\ pc = "drop_weather"
    /\ ~KeyError(df, {"Weather_Condition"})
    /\ df' = drop(df, {"Weather_Condition"})
    /\ pc' = "weather_done"
    /\ UNCHANGED <<df_in, missing, df_bl, failed>>

NextWeather ==
    DeriveIndicators \/ DeriveIndicatorsRaises \/ AssignMissing \/ DropWeatherCondition

SpecWeather == InitWeather /\ [][NextWeather]_vars

Indicators == {weather[k] : k \in 1..Len(weather)}

\* C5: after the normalization a row whose weather text was missing has every
\* one of the seven indicators missing, and a row whose text was present has
\* every indicator 0 or 1.
C5_MissingWeatherPropagates ==
    pc = "weather_done" =>
        /\ NRows(df) = NRows(df_in)
        /\ Indicators \subseteq df.columns
        /\ \A i \in 1..NRows(df) : \A name \in Indicators :
              IF isnull(df_in.data[i]["Weather_Condition"])
              THEN isnull(df.data[i][name])
              ELSE df.data[i][name] \in {<<0>>, <<1>>}

\* A table with a row of missing text next to a row of rain has been
\* normalized.
C5_Witness ==
    /\ pc = "weather_done"
    /\ \E i, j \in 1..NRows(df) :
          /\ isnull(df_in.data[i]["Weather_Condition"])
          /\ isnull(df.data[i]["Fog"])
          /\ ~isnull(df_in.data[j]["Weather_Condition"])
          /\ df.data[j]["Rain"] = <<1>>
          /\ df.data[j]["Clear"] = <<0>>

----------------------------------------------------------------------------
(* Stage 4, lines 234-248: the time features *)

\* The years of the dataset (line 11: February 2016 to December 2021).
FirstYear == 2016

LastYear == 2021

IsLeap(y) == (y % 4 = 0 /\ y % 100 # 0) \/ y % 400 = 0

\* The calendar the timestamps of Start_Time live in.
DaysIn(y, m) ==
    IF m = 2 THEN (IF IsLeap(y) THEN 29 ELSE 28)
    ELSE IF m \in {4, 6, 9, 11} THEN 30 ELSE 31

RECURSIVE DaysBefore(_, _)
\* The days from the first of January of FirstYear to the first of month m of year y.
DaysBefore(y, m) ==
    IF m > 1 THEN DaysBefore(y, m - 1) + DaysIn(y, m - 1)
    ELSE IF y > FirstYear THEN DaysBefore(y - 1, 12) + DaysIn(y - 1, 12)
    ELSE 0

\* Series.dt.weekday, Monday 0: the first of January 2016 was a Friday.
weekday(ts) == (4 + DaysBefore(ts.year, ts.month) + ts.day - 1) % 7

RECURSIVE cumsum(_)
\* np.cumsum
cumsum(a) ==
    IF a = <<>> THEN <<>>
    ELSE LET head == cumsum(SubSeq(a, 1, Len(a) - 1))
         IN  Append(head, (IF head = <<>> THEN 0 ELSE head[Len(head)]) + a[Len(a)])

\* line 240
days_each_month == cumsum(<<0, 31, 28, 31, 30, 31, 30, 31, 31, 30, 31, 30, 31>>)

nday_ThisMonth(month, day) == days_each_month[month + 1] + day

\* lines 242-243 for one row; the source's array is indexed from 0, the
\* tuple here from 1
nday(month, day) == days_each_month[(month - 1) + 1] + day

Timestamps ==
    {[year |-> y, month |-> m, day |-> d, hour |-> h, minute |-> mi] :
        y \in FirstYear..LastYear, m \in 1..12, d \in 1..31,
        h \in {0, 23}, mi \in {0, 59}}

ValidTimestamps == {ts \in Timestamps : ts.day <= DaysIn(ts.year, ts.month)}

TimeSchema == {"Start_Time", "Weather_Timestamp"}

\* A table of one accident: the time features are computed row by row.
InitTime ==
    /\ pc = "drop_weather_time"
    /\ \E ts \in ValidTimestamps :
          df = MakeTable(TimeSchema, <<[c \in TimeSchema |-> <<ts>>]>>)
    /\ df_in = df
    /\ missing = <<>>
    /\ df_bl = NoTable
    /\ failed = FALSE

Start(t, i) == t.data[i]["Start_Time"][1]

\* line 234
DropWeatherTimestamp ==
    /\ pc = "drop_weather_time"
    /\ ~KeyError(df, {"Weather_Timestamp"})
    /\ df' = drop(df, {"Weather_Timestamp"})
    /\ pc' = "calendar"
    /\ UNCHANGED <<df_in, missing, df_bl, failed>>

\* lines 236-238
ExtractCalendar ==
    /\ pc = "calendar"
    /\ LET n == NRows(df)
           t1 == SetColumn(df, "Year", [i \in 1..n |-> <<Start(df, i).year>>])
           t2 == SetColumn(t1, "Month", [i \in 1..n |-> <<Start(df, i).month>>])
       IN  df' = SetColumn(t2, "Weekday", [i \in 1..n |-> <<weekday(Start(df, i))>>])
    /\ pc' = "day"
    /\ UNCHANGED <<df_in, missing, df_bl, failed>>

\* lines 240-246
ExtractDay ==
    /\ pc = "day"
    /\ df' = SetColumn(df, "Day",
                 [i \in 1..NRows(df) |->
                     <<nday(df.data[i]["Month"][1], Start(df, i).day)>>])
    /\ pc' = "clock"
    /\ UNCHANGED <<df_in, missing, df_bl, failed>>

\* lines 247-248
ExtractClock ==
    /\ pc = "clock"
    /\ LET n == NRows(df)
           t1 == SetColumn(df, "Hour", [i \in 1..n |-> <<Start(df, i).hour>>])
       IN  df' = SetColumn(t1, "Minute",
                     [i \in 1..n |->
                         <<t1.data[i]["Hour"][1] * 60 + Start(df, i).minute>>])
    /\ pc' = "time_done"
    /\ UNCHANGED <<df_in, missing, df_bl, failed>>

NextTime == DropWeatherTimestamp \/ ExtractCalendar \/ ExtractDay \/ ExtractClock

SpecTime == InitTime /\ [][NextTime]_vars

\* The days of a year without a 29th of February that precede each month.
NonLeapDaysBeforeMonth == <<0, 31, 59, 90, 120, 151, 181, 212, 243, 273, 304, 334>>

\* C8: Day is the number of days of a non-leap year before the month plus the
\* day of the month, in leap years too; the first of March gives 60 in every
\* year; Day lies in 1..365.
C8_DayUsesNonLeapTable ==
    pc \in {"clock", "time_done"} =>
        \A i \in 1..NRows(df) :
            LET ts  == Start(df_in, i)
                Day == df.data[i]["Day"][1]
            IN  /\ Day = NonLeapDaysBeforeMonth[ts.month] + ts.day
                /\ (ts.month = 3 /\ ts.day = 1) => Day = 60
                /\ Day \in 1..365

\* The Day of a first of March of a leap year has been computed.
C8_Witness ==
    /\ pc = "time_done"
    /\ LET ts == Start(df_in, 1)
       IN  /\ IsLeap(ts.year) /\ ts.month = 3 /\ ts.day = 1
           /\ df.data[1]["Day"] = <<60>>

----------------------------------------------------------------------------
(* Stage 5, lines 256-300: missing data and duplicates *)

\* The threshold of line 272, in percent.
LowMissingPercent == 6

\* lines 256-258 for one column: x / df.shape[0] * 100, kept as the fraction
\* num / den
MissingPercent(t, c) ==
    [num |-> 100 * Cardinality({i \in 1..NRows(t) : isnull(t.data[i][c])}),
     den |-> NRows(t)]

\* line 272: the features whose percentage is above 0 and below 6
LowMissingFeatures(m) ==
    {c \in DOMAIN m : m[c].num > 0 /\ m[c].num < LowMissingPercent * m[c].den}

\* lines 274-278
DropnaSubset ==
    {"Street", "City", "Zipcode", "Timezone", "Airport_Code", "Temperature(F)",
     "Humidity(%)", "Pressure(in)", "Visibility(mi)", "Wind_Direction",
     "Wind_Speed(mph)", "Sunrise_Sunset", "Civil_Twilight", "Nautical_Twilight",
     "Astronomical_Twilight", "Clear", "Cloud", "Rain", "Heavy_Rain", "Snow",
     "Heavy_Snow", "Fog"}

\* df.dropna(subset=...): the rows with no missing cell in the subset's
\* columns, those of them the table of the model carries
dropna(t, subset) ==
    Take(t, Positions([i \in 1..NRows(t) |->
                          \A c \in subset \cap t.columns : ~isnull(t.data[i][c])]))

\* Series.median(): the missing cells are skipped; the middle value of the
\* rest, or the mean of the two middle values; missing when nothing is left.
\* The numbers of the model are even, so the mean is a whole number.
KthSmallest(values, k) ==
    CHOOSE v \in {values[i] : i \in DOMAIN values} :
        /\ Cardinality({i \in DOMAIN values : values[i] < v}) < k
        /\ Cardinality({i \in DOMAIN values : values[i] <= v}) >= k

median(t, c) ==
    LET present == SelectSeq(Column(t, c), LAMBDA x : ~isnull(x))
        values  == [i \in 1..Len(present) |-> present[i][1]]
        n       == Len(values)
    IN  IF n = 0 THEN NaN
        ELSE IF n % 2 = 1 THEN <<KthSmallest(values, (n + 1) \div 2)>>
        ELSE <<(KthSmallest(values, n \div 2) + KthSmallest(values, n \div 2 + 1)) \div 2>>

\* df[c] = df[c].fillna(value)
fillna(t, c, value) ==
    SetWhere(t, [i \in 1..NRows(t) |-> isnull(t.data[i][c])], c, value)

\* DataFrame.duplicated(keep='first') for the row at position i
duplicated_KeepLast(t, i) == \E j \in (i + 1)..NRows(t) : t.data[j] = t.data[i]

duplicated(t, i) == \E j \in 1..(i - 1) : t.data[j] = t.data[i]

\* line 299
drop_duplicates(t) == Take(t, Positions([i \in 1..NRows(t) |-> ~duplicated(t, i)]))

\* line 300
reset_index(t) == [t EXCEPT !.index = [i \in 1..NRows(t) |-> i - 1]]

ResolverSchema == {"Number", "Street", "Precipitation(in)", "Wind_Chill(F)", "Side"}

ResolverRow(street, rain, chill, side) ==
    [c \in ResolverSchema |->
        CASE c = "Number"            -> NaN
          [] c = "Street"            -> street
          [] c = "Precipitation(in)" -> rain
          [] c = "Wind_Chill(F)"     -> chill
          [] c = "Side"              -> side]

ResolverChoices ==
    {NaN, <<"Main St">>} \X {NaN, <<0>>, <<2>>} \X {NaN, <<40>>} \X {NaN, <<"R">>}

\* The table has a row: line 258 divides by the number of rows.
InitResolve ==
    /\ pc = "missing"
    /\ \E n \in 1..MaxRows : \E f \in [1..n -> ResolverChoices] :
          df = MakeTable(ResolverSchema,
                  [i \in 1..n |-> ResolverRow(f[i][1], f[i][2], f[i][3], f[i][4])])
    /\ df_in = df
    /\ missing = <<>>
    /\ df_bl = NoTable
    /\ failed = FALSE

\* lines 256-258
ComputeMissing ==
    /\ pc = "missing"
    /\ missing' = [c \in df.columns |-> MissingPercent(df, c)]
    /\ pc' = "drop_number"
    /\ UNCHANGED <<df, df_in, df_bl, failed>>

\* line 263, the first cell of the stage; at "resolved" the stage has run
\* and may be run again from this cell
DropNumber ==
    /\ pc \in {"drop_number", "resolved"}
    /\ ~KeyError(df, {"Number"})
    /\ df' = drop(df, {"Number"})
    /\ df_in' = df
    /\ pc' = "dropna"
    /\ UNCHANGED <<missing, df_bl, failed>>

\* line 263, raising
DropNumberRaises ==
    /\ pc \in {"drop_number", "resolved"}
    /\ KeyError(df, {"Number"})
    /\ failed' = TRUE
    /\ df_in' = df
    /\ pc' = "aborted"
    /\ UNCHANGED <<df, missing, df_bl>>

\* lines 274-278
DropMissingRows ==
    /\ pc = "dropna"
    /\ df' = dropna(df, DropnaSubset)
    /\ pc' = "impute"
    /\ UNCHANGED <<df_in, missing, df_bl, failed>>

\* lines 290-291
Impute ==
    /\ pc = "impute"
    /\ LET t1 == fillna(df, "Precipitation(in)", median(df, "Precipitation(in)"))
       IN  df' = fillna(t1, "Wind_Chill(F)", median(t1, "Wind_Chill(F)"))
    /\ pc' = "dedup"
    /\ UNCHANGED <<df_in, missing, df_bl, failed>>

\* lines 299-300
DropDuplicates ==
    /\ pc = "dedup"
    /\ df' = reset_index(drop_duplicates(df))
    /\ pc' = "resolved"
    /\ UNCHANGED <<df_in, missing, df_bl, failed>>

NextResolve ==
    \/ ComputeMissing
    \/ DropNumber
    \/ DropNumberRaises
    \/ DropMissingRows
    \/ Impute
    \/ DropDuplicates

SpecResolve == InitResolve /\ [][NextResolve]_vars

\* The stage's run has received the output of an earlier run.
SecondRun == "Number" \notin df_in.columns

\* C2: after the resolver no retained column has a missing value in any row.
C2_NoMissingValueAfterResolver ==
    (pc = "resolved" /\ ~SecondRun) =>
        \A i \in 1..NRows(df) : \A c \in df.columns : ~isnull(df.data[i][c])

\* C3 as stated: a second run of the resolver on the table the first run
\* produced runs to its end and yields that table.
C3_SecondRunYieldsSameTable ==
    (SecondRun /\ pc \in {"resolved", "aborted"}) =>
        (pc = "resolved" /\ ~failed /\ df = df_in)

\* lines 274-300 as one step
ResolveRows(t) ==
    LET t1 == dropna(t, DropnaSubset)
        t2 == fillna(t1, "Precipitation(in)", median(t1, "Precipitation(in)"))
        t3 == fillna(t2, "Wind_Chill(F)", median(t2, "Wind_Chill(F)"))
    IN  reset_index(drop_duplicates(t3))

\* C3 amended: a second run of the resolver on the table the first run
\* produced stops at its first step, the drop of Number, which raises because
\* the column is gone, and leaves the table as it was; the steps after it
\* (row deletion, imputation, de-duplication, index reset), applied to that
\* table, drop no row, fill no cell and change no label.
C3_SecondRunStopsAtDropNumber ==
    /\ SecondRun => (pc = "aborted" /\ failed /\ df = df_in)
    /\ pc \in {"resolved", "aborted"} =>
          /\ dropna(df, DropnaSubset) = df
          /\ fillna(df, "Precipitation(in)", median(df, "Precipitation(in)")) = df
          /\ fillna(df, "Wind_Chill(F)", median(df, "Wind_Chill(F)")) = df
          /\ drop_duplicates(df) = df
          /\ ResolveRows(df) = df

\* The second run has stopped on a table the first run had work to do on:
\* two rows are left, one of them with a missing cell.
C3_Witness ==
    /\ pc = "aborted"
    /\ failed
    /\ NRows(df) = 2
    /\ \E i \in 1..NRows(df) : isnull(df.data[i]["Side"])

FirstAt(t, r) == CHOOSE i \in 1..NRows(t) : t.data[i] = r /\ ~\E j \in 1..(i - 1) : t.data[j] = r

Rows(t) == {t.data[i] : i \in 1..NRows(t)}

\* C4: de-duplication keeps of each distinct row exactly one copy, the kept
\* rows stand in the order of their first occurrences, the number of rows is
\* the number of distinct rows, and the rows are labelled 0, 1, 2, ...
C4_DedupKeepsFirstOccurrences ==
    [][pc = "dedup" =>
          /\ df'.columns = df.columns
          /\ Rows(df') = Rows(df)
          /\ NRows(df') = Cardinality(Rows(df'))
          /\ \A k, l \in 1..NRows(df') :
                k < l => FirstAt(df, df'.data[k]) < FirstAt(df, df'.data[l])
          /\ df'.index = [k \in 1..NRows(df') |-> k - 1]
      ]_vars

\* De-duplication has removed the third of three rows, a copy of the first,
\* and kept the second, a different row, behind the first.
C4_Witness ==
    /\ pc = "resolved"
    /\ ~failed
    /\ NRows(df_in) = 3
    /\ df_in.data[1] = df_in.data[3]
    /\ df_in.data[1] # df_in.data[2]
    /\ \A i \in 1..3 : \A c \in df_in.columns \ {"Number"} : ~isnull(df_in.data[i][c])
    /\ NRows(df) = 2
    /\ df.index = <<0, 1>>
    /\ df.data[1] = drop(df_in, {"Number"}).data[1]
    /\ df.data[2] = drop(df_in, {"Number"}).data[2]

\* C10: the row deletion removes a row if and only if the row has a missing
\* value in a column whose missing percentage is above 0 and below 6.
C10_RowsRemovedIffMissingInLowBand ==
    [][pc = "dropna" =>
          \A i \in 1..NRows(df) :
              (df.index[i] \notin {df'.index[k] : k \in 1..NRows(df')})
                  <=> \E c \in LowMissingFeatures(missing) \cap df.columns :
                          isnull(df.data[i][c])
      ]_vars

----------------------------------------------------------------------------
(* Stage 6, lines 318-329: the binary target and the balanced table *)

\* The length of the slices of lines 327-328, which is 110000 in the source,
\* scaled to the tables of the model.
Cap == 2

IsSerious_From3(severity) == severity \in {<<3>>, <<4>>}

\* df['Severity'] == 4
IsSerious(severity) == severity = <<4>>

\* lines 318-320
binarize(t) ==
    LET t1 == SetColumn(t, "Severity4", [i \in 1..NRows(t) |-> <<0>>])
        t2 == SetWhere(t1, [i \in 1..NRows(t1) |-> IsSerious(t1.data[i]["Severity"])],
                       "Severity4", <<1>>)
    IN  drop(t2, {"Severity"})

FirstOfClass_Last(t, label, length) ==
    LET pos == Positions([i \in 1..NRows(t) |-> t.data[i]["Severity4"] = <<label>>])
    IN  Take(t, SubSeq(pos, IF Len(pos) < length THEN 1 ELSE Len(pos) - length + 1,
                       Len(pos)))

\* df[df['Severity4'] == label][:length]
FirstOfClass(t, label, length) ==
    LET pos == Positions([i \in 1..NRows(t) |-> t.data[i]["Severity4"] = <<label>>])
    IN  Take(t, SubSeq(pos, 1, IF Len(pos) < length THEN Len(pos) ELSE length))

\* pd.concat([a, b])
concat(a, b) ==
    [columns |-> a.columns \cup b.columns,
     index   |-> a.index \o b.index,
     data    |-> a.data \o b.data]

BalanceSchema == {"Severity", "Start_Lat"}

BalanceChoices == {<<1>>, <<2>>, <<3>>, <<4>>} \X {<<0>>, <<1>>, <<2>>}

\* The largest number of rows of a table to balance: more than the cap in one
\* class, and a row of the other class.
MaxBalanceRows == 4

\* The table the resolver hands on: no two rows equal, labelled 0, 1, 2, ...
InitBalance ==
    /\ pc = "binarize"
    /\ \E n \in 0..MaxBalanceRows : \E f \in [1..n -> BalanceChoices] :
          /\ \A i, j \in 1..n : f[i] = f[j] => i = j
          /\ df = MakeTable(BalanceSchema,
                    [i \in 1..n |-> [c \in BalanceSchema |->
                                        IF c = "Severity" THEN f[i][1] ELSE f[i][2]]])
    /\ df_in = df
    /\ missing = <<>>
    /\ df_bl = NoTable
    /\ failed = FALSE

\* lines 318-320
Binarize ==
    /\ pc = "binarize"
    /\ ~KeyError(df, {"Severity"})
    /\ df' = binarize(df)
    /\ pc' = "balance"
    /\ UNCHANGED <<df_in, missing, df_bl, failed>>

\* lines 327-329
Balance ==
    /\ pc = "balance"
    /\ df_bl' = concat(FirstOfClass(df, 0, Cap), FirstOfClass(df, 1, Cap))
    /\ pc' = "balanced"
    /\ UNCHANGED <<df, df_in, missing, failed>>

NextBalance == Binarize \/ Balance

SpecBalance == InitBalance /\ [][NextBalance]_vars

CountOf(t, label) == Cardinality({i \in 1..NRows(t) : t.data[i]["Severity4"] = <<label>>})

Min(a, b) == IF a < b THEN a ELSE b

\* C1: the balanced table has as many rows of class 0 as of class 1, and that
\* number is the least of the number of class 0 rows of the input, the
\* number of class 1 rows of the input, and the cap.
C1_BalancedCountsEqualMin ==
    pc = "balanced" =>
        /\ CountOf(df_bl, 0) = CountOf(df_bl, 1)
        /\ CountOf(df_bl, 0) = Min(Min(CountOf(df, 0), CountOf(df, 1)), Cap)

\* C9: after the binarizer every row has a Severity4 of 0 or 1, which is 1
\* exactly when the row's Severity was 4; the rows, their order and their
\* other cells are those of the input; Severity is no longer a column.
C9_Severity4IffSeverity4 ==
    pc \in {"balance", "balanced"} =>
        /\ df.columns = (df_in.columns \ {"Severity"}) \cup {"Severity4"}
        /\ NRows(df) = NRows(df_in)
        /\ df.index = df_in.index
        /\ \A i \in 1..NRows(df) :
              /\ df.data[i]["Severity4"] \in {<<0>>, <<1>>}
              /\ df.data[i]["Severity4"] = <<1>> <=> df_in.data[i]["Severity"] = <<4>>
              /\ \A c \in df_in.columns \ {"Severity"} : df.data[i][c] = df_in.data[i][c]

\* A table with a row of severity 4 between rows of severities 3 and 1 has
\* been binarized.
C9_Witness ==
    /\ pc = "balance"
    /\ NRows(df) = 3
    /\ df_in.data[1]["Severity"] = <<3>> /\ df.data[1]["Severity4"] = <<0>>
    /\ df_in.data[2]["Severity"] = <<4>> /\ df.data[2]["Severity4"] = <<1>>
    /\ df_in.data[3]["Severity"] = <<1>> /\ df.data[3]["Severity4"] = <<0>>

\* The positions in the balanced table of the rows of a class.
ClassPositions(t, label) == {k \in 1..NRows(t) : t.data[k]["Severity4"] = <<label>>}

\* C11: the balanced table is a truncation by position: each of its rows is
\* a row of the input, with its label and its cells, and none comes twice;
\* a row of a class is in it only if every earlier row of that class is;
\* the rows of a class stand in the order of the input; every row of class 0
\* stands before every row of class 1.
C11_BalancedIsPrefixOfEachClass ==
    pc = "balanced" =>
        /\ df_bl.columns = df.columns
        /\ \A k \in 1..NRows(df_bl) :
              \E i \in 1..NRows(df) :
                  df.index[i] = df_bl.index[k] /\ df.data[i] = df_bl.data[k]
        /\ \A k, l \in 1..NRows(df_bl) : df_bl.index[k] = df_bl.index[l] => k = l
        /\ \A i, j \in 1..NRows(df) :
              (/\ i < j
               /\ df.data[i]["Severity4"] = df.data[j]["Severity4"]
               /\ \E l \in 1..NRows(df_bl) : df_bl.index[l] = df.index[j])
                  => \E k \in 1..NRows(df_bl) : df_bl.index[k] = df.index[i]
        /\ \A label \in {0, 1} : \A k, l \in ClassPositions(df_bl, label) :
              k < l => df_bl.index[k] < df_bl.index[l]
        /\ \A k \in ClassPositions(df_bl, 0) : \A l \in ClassPositions(df_bl, 1) : k < l

\* A table of a serious accident followed by three normal ones has been
\* balanced: the first two normal rows, then the serious one.
C11_Witness ==
    /\ pc = "balanced"
    /\ NRows(df) = 4
    /\ CountOf(df, 0) = 3
    /\ df.data[1]["Severity4"] = <<1>>
    /\ df_bl.index = <<1, 2, 0>>
    /\ df_bl.data = <<df.data[2], df.data[3], df.data[1]>>

====
